---- MODULE Spec2Model ----
(***************************************************************************)
(* Cart handling of the e-commerce backend: the routes POST /cart/add and  *)
(* DELETE /cart/delete/:itemId (src/src/routes/login.route.js) and their   *)
(* handlers addToCart and deleteCart (src/src/controllers/login.js),       *)
(* running against the user, product and cart tables of the store; and the *)
(* product listing GET /products/all with its handler getProducts and the  *)
(* route GET /products/category/:category with getProductsByCategory       *)
(* (src/unnamed/part_001, part_002).                                       *)
(*                                                                         *)
(* A handler is an async function: it runs without interruption up to an   *)
(* await of a store call, and other requests run while the call is         *)
(* pending.  One action of the model is one store call together with the   *)
(* synchronous code that follows it up to the next await or the response.  *)
(***************************************************************************)
EXTENDS Integers, FiniteSets, Sequences, TLC

\* ------------------------------------------------------------------ bounds
\* Requests sent over the whole run.
MaxRequests == 2

\* The request slots: at most two requests are in progress at a time. A slot
\* is free again once its response is taken.
Reqs == {1, 2}

\* ------------------------------------------------------------ JS values
\* A JavaScript value as the handlers see it: undefined, a number, or a
\* string of digits (every route parameter is a string).
Undef == [t |-> "undef", v |-> 0]
Num(n) == [t |-> "num", v |-> n]
Str(n) == [t |-> "str", v |-> n]

\* !x for the values above ("" does not occur: a route parameter is not empty)
FalsyZeroOnly(x) == x.t = "num" /\ x.v = 0
Falsy(x) == x.t = "undef" \/ (x.t = "num" /\ x.v = 0)

\* ------------------------------------------------------------ the tables
\* prisma.user and prisma.product rows present when the server starts
InitialUsers == {1, 2}
InitialProducts == {1, 2}

\* the cart table when the server starts
InitialCarts == {{}}

\* the cart table after user 1 added product 1 twice and user 2 added
\* product 2 once
StockedCart ==
    {[id |-> 1, userId |-> 1, productId |-> 1, count |-> 2],
     [id |-> 2, userId |-> 2, productId |-> 2, count |-> 1]}

\* ids a request can name: the rows above and one id of no row
UserIds == {1, 2, 3}
ProductIds == {1, 2, 3}

\* ------------------------------------------------------------ credentials
\* The Authorization header of a request: absent, or "Bearer <token>" with
\* a token that is no JWT, a JWT signed with another secret, an expired
\* JWT, or a JWT that jwt.sign({userid}, JWT_SECRET) issued.
NoHeader == [k |-> "none", userid |-> 0]
BadTokens == {[k |-> b, userid |-> 0] : b \in {"malformed", "badsig", "expired"}}
Token(u) == [k |-> "valid", userid |-> u]
Credentials == {NoHeader} \cup BadTokens \cup {Token(u) : u \in UserIds}

Thrown == [ok |-> FALSE, userid |-> 0]

\* jwt.verify(token, JWT_SECRET): the payload, or an exception
JwtVerify(cred) ==
    IF cred.k = "valid" THEN [ok |-> TRUE, userid |-> cred.userid] ELSE Thrown

\* The auth middleware of the cart routes (middlewares/auth.middleware): TRUE
\* when it calls next(), FALSE when it answers 401, which it does when the
\* credential is absent, malformed, wrongly signed or expired.
AuthPasses(cred) == cred.k = "valid"

\* the middleware chains of the two cart routes
CartAddRouteNoAuth == <<"addToCart">>
CartAddRoute == <<"auth", "addToCart">>
CartDeleteRouteNoAuth == <<"deleteCart">>
CartDeleteRoute == <<"auth", "deleteCart">>
\* the handlers alone, as the controller exports them
AddToCartAlone == <<"addToCart">>
DeleteCartAlone == <<"deleteCart">>

\* ------------------------------------------------------------ requests
\* count of the body of POST /cart/add: absent or an integer (0 goes the way
\* of any other integer)
Counts == {Undef} \cup {Num(n) : n \in {-1, 2}}
\* productId of the body: absent or the integer the API documents
BodyProductIds == {Undef} \cup {Num(n) : n \in ProductIds}
\* :itemId of DELETE /cart/delete/:itemId: express hands every route
\* parameter to the handler as a string, and deleteCart does not convert it
ItemIdParams == {Str(n) : n \in ProductIds}

AddRequests ==
    [route : {"add"}, cred : Credentials, productId : BodyProductIds,
     count : Counts, itemId : {Undef}]
DeleteRequests ==
    [route : {"delete"}, cred : Credentials, productId : {Undef},
     count : {Undef}, itemId : ItemIdParams]
Requests == AddRequests \cup DeleteRequests

\* The cart requests sent while store calls can fail: those with the valid
\* token of a user or of no user, which reach the handler's store calls.
FaultRequests == {q \in Requests : q.cred \in {Token(1), Token(3)}}

\* The requests the handlers are called with when called without the
\* middleware: no header, an expired token, the token of a user and of no
\* user; the count omitted.
HandlerRequests ==
    {q \in Requests :
        /\ q.count = Undef
        /\ q.cred \in {NoHeader, [k |-> "expired", userid |-> 0],
                       Token(1), Token(3)}}

\* the cart requests clients send under a workload
CartRequests(w) ==
    CASE w = "fault" -> FaultRequests
      [] w = "handlers" -> HandlerRequests
      [] OTHER -> Requests

NoRequest ==
    [route |-> "none", cred |-> NoHeader, productId |-> Undef, count |-> Undef,
     itemId |-> Undef]

NoItem == [id |-> 0, userId |-> 0, productId |-> 0, count |-> 0]

\* ------------------------------------------------------------ query strings
\* A parameter of req.query of GET /products/all: absent (undefined), or a
\* string, held as the sequence of its characters. The strings of the model
\* have no '.', no exponent and no "Infinity".
Absent == [given |-> FALSE, s |-> <<>>]
Given(str) == [given |-> TRUE, s |-> str]

\* if (x) for a query parameter: undefined and "" are falsy, "0" is not
TruthyIfNonZero(x) == x.given /\ x.s # <<>> /\ x.s # <<"0">>
Truthy(x) == x.given /\ x.s # <<>>

Digits == {"0", "1", "2", "3", "4", "5", "6", "7", "8", "9"}
DigitValue(c) ==
    CASE c = "0" -> 0 [] c = "1" -> 1 [] c = "2" -> 2 [] c = "3" -> 3
      [] c = "4" -> 4 [] c = "5" -> 5 [] c = "6" -> 6 [] c = "7" -> 7
      [] c = "8" -> 8 [] c = "9" -> 9

NaN == [t |-> "nan", v |-> 0]

RECURSIVE TrimStart(_)
TrimStart(str) ==
    IF str # <<>> /\ Head(str) = " " THEN TrimStart(Tail(str)) ELSE str

RECURSIVE TrimEnd(_)
TrimEnd(str) ==
    IF str # <<>> /\ str[Len(str)] = " "
    THEN TrimEnd(SubSeq(str, 1, Len(str) - 1)) ELSE str

\* String.prototype.trim
Trim(str) == TrimEnd(TrimStart(str))

RECURSIVE DigitPrefix(_)
DigitPrefix(str) ==
    IF str # <<>> /\ Head(str) \in Digits
    THEN <<Head(str)>> \o DigitPrefix(Tail(str)) ELSE <<>>

RECURSIVE DecimalValue(_)
DecimalValue(ds) ==
    IF ds = <<>> THEN 0
    ELSE 10 * DecimalValue(SubSeq(ds, 1, Len(ds) - 1)) + DigitValue(ds[Len(ds)])

\* parseInt(str, 10): leading blanks are skipped, a sign is read, then the
\* longest run of digits; NaN when there is no digit
ParseInt(str) ==
    LET t == TrimStart(str)
        signed == t # <<>> /\ Head(t) \in {"+", "-"}
        ds == DigitPrefix(IF signed THEN Tail(t) ELSE t) IN
    IF ds = <<>> THEN NaN
    ELSE IF signed /\ Head(t) = "-" THEN Num(-DecimalValue(ds))
    ELSE Num(DecimalValue(ds))

\* parseFloat(str): on the strings of the model (no '.', no exponent) it reads
\* the same sign and digits as parseInt(str, 10)
ParseFloat(str) == ParseInt(str)

\* x || d for a number x: NaN and 0 are falsy
OrDefaultClamps(x, d) == IF x.t = "nan" \/ x.v <= 0 THEN Num(d) ELSE x
OrDefaultNaNOnly(x, d) == IF x.t = "nan" THEN Num(d) ELSE x
OrDefault(x, d) == IF x.t = "nan" \/ x.v = 0 THEN Num(d) ELSE x

\* const { page = 1, limit = 10 } = req.query; parseInt(page, 10) || 1 and
\* parseInt(limit, 10) || 10
DefaultPage == 1
DefaultLimit == 10
PageNumberOf(page) ==
    OrDefault(IF page.given THEN ParseInt(page.s) ELSE Num(DefaultPage),
              DefaultPage).v
PageSizeOf(limit) ==
    OrDefault(IF limit.given THEN ParseInt(limit.s) ELSE Num(DefaultLimit),
              DefaultLimit).v

\* c.toUpperCase() for the letters of the model
UpperChar(c) ==
    CASE c = "r" -> "R" [] c = "b" -> "B" [] c = "s" -> "S" [] c = "m" -> "M"
      [] OTHER -> c
ToUpperCase(str) == [i \in 1..Len(str) |-> UpperChar(str[i])]

\* str.split(','): the pieces between the commas, [""] for ""
RECURSIVE Split(_)
Split(str) ==
    IF \A i \in 1..Len(str) : str[i] # "," THEN <<str>>
    ELSE LET k == CHOOSE i \in 1..Len(str) :
                      str[i] = "," /\ \A j \in 1..(i - 1) : str[j] # "," IN
         <<SubSeq(str, 1, k - 1)>> \o Split(SubSeq(str, k + 1, Len(str)))

\* color.split(',').map(c => c.trim().toUpperCase())
ListedValuesUntrimmed(str) ==
    LET pieces == Split(str) IN
    [i \in 1..Len(pieces) |-> ToUpperCase(pieces[i])]
ListedValues(str) ==
    LET pieces == Split(str) IN
    [i \in 1..Len(pieces) |-> ToUpperCase(Trim(pieces[i]))]

\* ------------------------------------------------------------ the QuerySpec
PriceColumn == <<"p", "r", "i", "c", "e">>
IdColumn == <<"i", "d">>
AscLiteral == <<"a", "s", "c">>
TrueLiteral == <<"t", "r", "u", "e">>
FalseLiteral == <<"f", "a", "l", "s", "e">>

DescLiteral == <<"d", "e", "s", "c">>

\* const orderBy = { [sortBy]: sortOrder === 'asc' ? 'asc' : 'desc' } with
\* the defaults sortBy = 'price', sortOrder = 'asc' of the destructuring
OrderByOfDescOnly(sortBy, sortOrder) ==
    [field |-> IF sortBy.given THEN sortBy.s ELSE PriceColumn,
     dir |-> IF sortOrder.given /\ sortOrder.s = DescLiteral
             THEN "desc" ELSE "asc"]
OrderByOf(sortBy, sortOrder) ==
    [field |-> IF sortBy.given THEN sortBy.s ELSE PriceColumn,
     dir |-> IF ~sortOrder.given \/ sortOrder.s = AscLiteral
             THEN "asc" ELSE "desc"]

\* if (categoryId) where.categoryId = parseInt(categoryId, 10), and the same
\* for subcategoryId and brandId: Undef when the clause is not set
NumericClause(x) == IF Truthy(x) THEN ParseInt(x.s) ELSE Undef

\* if (color) where.Colors = { hasSome: colorsArray }, the same for size
NoSetClause == [on |-> FALSE, hasSome |-> <<>>]
SetClause(x) ==
    IF Truthy(x) THEN [on |-> TRUE, hasSome |-> ListedValues(x.s)]
    ELSE NoSetClause

\* if (minPrice && maxPrice) where.price = { gte, lte }
\* else if (minPrice) where.price = { gte } else if (maxPrice) { lte }
PriceClauseZeroIsAbsent(minPrice, maxPrice) ==
    [gte |-> IF TruthyIfNonZero(minPrice) THEN ParseFloat(minPrice.s) ELSE Undef,
     lte |-> IF TruthyIfNonZero(maxPrice) THEN ParseFloat(maxPrice.s) ELSE Undef]
PriceClause(minPrice, maxPrice) ==
    IF Truthy(minPrice) /\ Truthy(maxPrice)
    THEN [gte |-> ParseFloat(minPrice.s), lte |-> ParseFloat(maxPrice.s)]
    ELSE IF Truthy(minPrice)
    THEN [gte |-> ParseFloat(minPrice.s), lte |-> Undef]
    ELSE IF Truthy(maxPrice)
    THEN [gte |-> Undef, lte |-> ParseFloat(maxPrice.s)]
    ELSE [gte |-> Undef, lte |-> Undef]

\* if (discount === 'true') where.discount = { gt: 0 }
\* else if (discount === 'false') where.discount = 0
GreaterThanZero == [t |-> "gt", v |-> 0]
DiscountClauseAnyValue(discount) ==
    IF discount.given /\ discount.s # FalseLiteral THEN GreaterThanZero
    ELSE IF discount.given THEN Num(0)
    ELSE Undef
DiscountClause(discount) ==
    IF discount.given /\ discount.s = TrueLiteral THEN GreaterThanZero
    ELSE IF discount.given /\ discount.s = FalseLiteral THEN Num(0)
    ELSE Undef

\* const where = {} and the clauses the handler sets in it
WhereOf(q) ==
    [categoryId |-> NumericClause(q.categoryId),
     subcategoryId |-> NumericClause(q.subcategoryId),
     brandsId |-> NumericClause(q.brandId),
     Colors |-> SetClause(q.color),
     Size |-> SetClause(q.size),
     price |-> PriceClause(q.minPrice, q.maxPrice),
     discount |-> DiscountClause(q.discount)]

NoWhere ==
    [categoryId |-> Undef, subcategoryId |-> Undef, brandsId |-> Undef,
     Colors |-> NoSetClause, Size |-> NoSetClause,
     price |-> [gte |-> Undef, lte |-> Undef], discount |-> Undef]

\* skip: (pageNumber - 1) * pageSize
SkipOf(pageNumber, pageSize) == (pageNumber - 1) * pageSize

\* ------------------------------------------------------------ the catalog
\* The values of the enums eColors and eSize, as the character strings the
\* listing compares them with.
ColorValues == {<<"R">>, <<"B">>}
SizeValues == {<<"S">>, <<"M">>}

\* Rows of the product table. Prices are whole amounts, all different, and
\* not in the order of the ids; subcategoryId 0 is null. Twelve rows are of
\* category 2 with a price from 10 to 50.
PriceTable == <<31, 22, 20, 46, 10, 0, 37, 50, 13, 40, 28, 43, 16, 60, 25>>
CatalogRows == Len(PriceTable)
PriceOf(i) == PriceTable[i]
CategoryOf(i) == IF i = 3 THEN 1 ELSE 2
ProductRow(i) ==
    [id |-> i,
     price |-> PriceOf(i),
     discount |-> IF i % 3 = 1 THEN 0 ELSE 10,
     categoryId |-> CategoryOf(i),
     subcategoryId |-> i % 3,
     brandsId |-> 1 + (i % 2),
     Colors |-> CASE i % 4 = 0 -> {}
                  [] i % 4 = 1 -> {<<"R">>}
                  [] i % 4 = 2 -> {<<"B">>}
                  [] OTHER -> ColorValues,
     Size |-> CASE (i \div 2) % 3 = 0 -> {<<"S">>}
                [] (i \div 2) % 3 = 1 -> {<<"M">>}
                [] OTHER -> SizeValues]
Catalog(n) == {ProductRow(i) : i \in 1..n}
IdsOf(rows) == {p.id : p \in rows}

\* the product table when the server starts: empty, the two products of the
\* cart requests, or all rows
CatalogSizes == {0, Cardinality(InitialProducts), CatalogRows}

VARIABLES
    users,      \* ids of the rows of the user table
    products,   \* ids of the rows of the product table
    cart,       \* rows of the cart table: [id, userId, productId, count]
    nextId,     \* next autoincrement id of the cart table
    req,        \* req[r]: the request in slot r
    pc,         \* pc[r]: where the request's handler stands
    status,     \* status[r]: HTTP status of the response, 0 before it
    userId,     \* userId[r]: user.id of the handler, 0 before the lookup
    cartItem,   \* cartItem[r]: the handler's cartItem, NoItem when null
    sent,       \* number of requests sent so far
    \* history of the request in slot r, read by the properties only
    writes,     \* writes[r]: cart writes the store applied for the request
    seq,        \* seq[r]: the request is the seq[r]-th request sent
    overlapped, \* overlapped[r]: another request was in progress meanwhile
    linesAtStart, \* linesAtStart[r]: cart rows of the request's user and
                  \* product when it was sent
    calls,      \* calls[r]: the store calls the handler has made, in order
    entered,    \* entered[r]: the handler the route invoked, "" if none
    failed,     \* failed[r]: 0, or the number of store calls the handler
                \* had made when one of them failed
    \* the product listing
    catalog,    \* rows of the product table, with the columns listed by
    workload,   \* which requests clients send
    query,      \* req.query of the listing request in progress
    params,     \* req.params of the products-by-category request
    lpc,        \* where getProducts stands
    pageNumber, \* the handler's pageNumber
    pageSize,   \* the handler's pageSize
    orderBy,    \* the handler's orderBy
    where,      \* the handler's where
    fetched,    \* the handler's products, the answer of findMany
    response,   \* the response of the listing request
    lcalls,     \* the store calls getProducts has made, in order
    lfailed,    \* 0, or the number of store calls getProducts had made
                \* when one of them failed
    changed     \* the product table changed between findMany and count

vars == <<users, products, cart, nextId, req, pc, status, userId, cartItem,
          sent, writes, seq, overlapped, linesAtStart, calls, entered, failed,
          catalog, workload, query, params, lpc, pageNumber, pageSize,
          orderBy, where, fetched, response, lcalls, lfailed, changed>>

hist == <<seq, overlapped, linesAtStart, entered>>

store == <<users, products, cart, nextId>>

\* what the listing leaves alone, and what the cart handlers leave alone
carts == <<users, cart, nextId, req, pc, status, userId, cartItem, writes,
           seq, overlapped, linesAtStart, calls, entered, failed>>
listing == <<catalog, workload, query, params, lpc, pageNumber, pageSize,
             orderBy, where, fetched, response, lcalls, lfailed, changed>>

\* ------------------------------------------------------------ store calls
\* const { productId, count = 1 } = req.body
CountOf(body) == IF body.count.t = "undef" THEN Num(1) ELSE body.count

\* null, as findUnique and findFirst answer when no row matches
NoRow == 0

\* prisma.user.findUnique({ where: { id } }), prisma.product.findUnique
UserFindUnique(id) == IF id \in users THEN id ELSE NoRow
ProductFindUnique(id) == IF id \in products THEN id ELSE NoRow

\* if (!user), if (!product) of addToCart; if (!user) of deleteCart
AddUserUnchecked(user) == FALSE
AddUserAbsent(user) == user = NoRow
ProductUnchecked(product) == FALSE
ProductAbsent(product) == product = NoRow
DeleteUserUnchecked(user) == FALSE
DeleteUserAbsent(user) == user = NoRow

\* data: { count: cartItem.count + count } of cart.update
UpdatedCountReplaces(item, count) == count.v
UpdatedCount(item, count) == item.count + count.v

\* whether the cart table has a unique index on (userId, productId): the
\* design relies on the handler's find-then-act, the store has no constraint
CartUniqueUserProduct == FALSE

\* rows of the cart table of user u and product p
CartMatches(u, p) == {c \in cart : c.userId = u /\ c.productId = p}

\* prisma.cart.findFirst({ where: { userId: u, productId: p } }): the client
\* rejects the call when p is not a number (productId is an integer column:
\* addToCart stores product.id in it); else the matching row of lowest id,
\* or null
Rejected == [id |-> -1, userId |-> 0, productId |-> 0, count |-> 0]
CartFindFirstFindsNone(u, p) == IF p.t # "num" THEN Rejected ELSE NoItem
CartFindFirst(u, p) ==
    IF p.t # "num" THEN Rejected
    ELSE IF CartMatches(u, p.v) = {} THEN NoItem
    ELSE CHOOSE c \in CartMatches(u, p.v) :
             \A d \in CartMatches(u, p.v) : c.id <= d.id

\* the target of a request as the client means it: the user of its token
\* and the product its productId or itemId names
\* ------------------------------------------------------------ product store
\* whether a row satisfies a clause of where
SatisfiesEquals(value, clause) ==
    clause.t = "undef" \/ (clause.t = "num" /\ value = clause.v)
SatisfiesHasSome(values, clause) ==
    ~clause.on \/ \E i \in 1..Len(clause.hasSome) : clause.hasSome[i] \in values
SatisfiesRange(value, clause) ==
    /\ clause.gte.t = "undef" \/ (clause.gte.t = "num" /\ value >= clause.gte.v)
    /\ clause.lte.t = "undef" \/ (clause.lte.t = "num" /\ value <= clause.lte.v)
SatisfiesDiscount(value, clause) ==
    CASE clause.t = "undef" -> TRUE
      [] clause.t = "gt" -> value > clause.v
      [] OTHER -> value = clause.v

MatchesIgnoringBrand(p, w) ==
    /\ SatisfiesEquals(p.categoryId, w.categoryId)
    /\ SatisfiesEquals(p.subcategoryId, w.subcategoryId)
    /\ SatisfiesHasSome(p.Colors, w.Colors)
    /\ SatisfiesHasSome(p.Size, w.Size)
    /\ SatisfiesRange(p.price, w.price)
    /\ SatisfiesDiscount(p.discount, w.discount)
Matches(p, w) ==
    /\ SatisfiesEquals(p.categoryId, w.categoryId)
    /\ SatisfiesEquals(p.subcategoryId, w.subcategoryId)
    /\ SatisfiesEquals(p.brandsId, w.brandsId)
    /\ SatisfiesHasSome(p.Colors, w.Colors)
    /\ SatisfiesHasSome(p.Size, w.Size)
    /\ SatisfiesRange(p.price, w.price)
    /\ SatisfiesDiscount(p.discount, w.discount)

\* The client validates the arguments of a call before it reaches the
\* database and rejects the call when a number is NaN or a listed value is
\* no value of the column's enum.
ValidWhere(w) ==
    /\ w.categoryId.t # "nan" /\ w.subcategoryId.t # "nan"
    /\ w.brandsId.t # "nan"
    /\ w.price.gte.t # "nan" /\ w.price.lte.t # "nan"
    /\ \A i \in 1..Len(w.Colors.hasSome) : w.Colors.hasSome[i] \in ColorValues
    /\ \A i \in 1..Len(w.Size.hasSome) : w.Size.hasSome[i] \in SizeValues

\* the columns the model sorts by: their values differ from row to row
SortColumns == {PriceColumn, IdColumn}
SortKey(p, field) == IF field = PriceColumn THEN p.price ELSE p.id

RECURSIVE Ascending(_, _)
Ascending(rows, field) ==
    IF rows = {} THEN <<>>
    ELSE LET first == CHOOSE p \in rows :
                 \A o \in rows : SortKey(p, field) <= SortKey(o, field) IN
         <<first>> \o Ascending(rows \ {first}, field)

Reverse(rows) == [i \in 1..Len(rows) |-> rows[Len(rows) + 1 - i]]

\* the rows matching where, in the order orderBy asks for
Ordered(w, o) ==
    LET asc == Ascending({p \in catalog : Matches(p, w)}, o.field) IN
    IF o.dir = "asc" THEN asc ELSE Reverse(asc)

Min(a, b) == IF a <= b THEN a ELSE b
Max(a, b) == IF a >= b THEN a ELSE b

\* rows skip+1 .. skip+take of a list; a negative take counts from the end
WindowFromFirstRow(rows, skip, take) ==
    IF take >= 0 THEN SubSeq(rows, 1, Min(take, Len(rows)))
    ELSE SubSeq(rows, Max(1, Len(rows) + take + 1), Len(rows))
Window(rows, skip, take) ==
    IF take >= 0
    THEN IF skip >= Len(rows) THEN <<>>
         ELSE SubSeq(rows, skip + 1, Min(skip + take, Len(rows)))
    ELSE IF skip >= Len(rows) THEN <<>>
         ELSE SubSeq(rows, Max(1, Len(rows) - skip + take + 1),
                     Len(rows) - skip)

\* prisma.product.findMany({ where, orderBy, skip, take }): rejected when an
\* argument is invalid (skip must not be negative, orderBy must name a
\* column), else the window of the ordered matching rows
RejectedRows == [ok |-> FALSE, rows |-> <<>>]
ProductFindMany(w, o, skip, take) ==
    IF ~ValidWhere(w) \/ o.field \notin SortColumns \/ skip < 0
    THEN RejectedRows
    ELSE [ok |-> TRUE, rows |-> Window(Ordered(w, o), skip, take)]

\* prisma.product.count({ where })
RejectedCount == [ok |-> FALSE, n |-> 0]
ProductCount(w) ==
    IF ~ValidWhere(w) THEN RejectedCount
    ELSE [ok |-> TRUE, n |-> Cardinality({p \in catalog : Matches(p, w)})]

\* Math.ceil(totalProducts / pageSize) as JSON carries it: null (here
\* NullPages) when the quotient is no finite number
NullPages == -1000
MathFloorOfQuotient(a, b) ==
    IF b = 0 THEN NullPages
    ELSE IF b > 0 THEN a \div b
    ELSE (-a) \div (-b)
MathCeilOfQuotient(a, b) ==
    IF b = 0 THEN NullPages
    ELSE IF b > 0 THEN -((-a) \div b)
    ELSE -(a \div (-b))

TargetUser(q) == q.cred.userid
TargetProduct(q) == IF q.route = "add" THEN q.productId.v ELSE q.itemId.v
InProgress(r) == pc[r] \notin {"idle", "done"}

\* ------------------------------------------------------------ GET /products/all
\* the query of a listing request
NoQuery ==
    [page |-> Absent, limit |-> Absent, sortBy |-> Absent,
     sortOrder |-> Absent, categoryId |-> Absent, subcategoryId |-> Absent,
     brandId |-> Absent, color |-> Absent, size |-> Absent,
     minPrice |-> Absent, maxPrice |-> Absent, discount |-> Absent]

NoMeta == [totalProducts |-> 0, totalPages |-> 0, currentPage |-> 0, pageSize |-> 0]
NoResponse == [status |-> 0, data |-> <<>>, meta |-> NoMeta]

\* meta: { totalProducts, totalPages: Math.ceil(totalProducts / pageSize),
\*         currentPage: pageNumber, pageSize }
MetaOf(totalProducts, size, number) ==
    [totalProducts |-> totalProducts,
     totalPages |-> MathCeilOfQuotient(totalProducts, size),
     currentPage |-> number,
     pageSize |-> size]

\* catch (error) { res.status(500).json({ error: 'Failed to fetch products' }) }
GetProductsRetries ==
    /\ lpc' = lpc
    /\ UNCHANGED response
GetProductsCaught ==
    /\ lpc' = "done"
    /\ response' = [status |-> 500, data |-> <<>>, meta |-> NoMeta]

\* the store calls of the handler, with the arguments it passes
FindManyCall(w, o, skip, take) ==
    [name |-> "product.findMany", where |-> w, orderBy |-> o, skip |-> skip,
     take |-> take]
CountCallUnfiltered(w) ==
    [name |-> "product.count", where |-> NoWhere,
     orderBy |-> OrderByOf(Absent, Absent), skip |-> 0, take |-> 0]
CountCall(w) ==
    [name |-> "product.count", where |-> w,
     orderBy |-> OrderByOf(Absent, Absent), skip |-> 0, take |-> 0]

\* ------------------------------------------------------------ GET /products/category/:category
\* req.params: the named segments of the route's path with the strings the
\* request's path has in their place, as name-value pairs
NoParams == {}
RouteParams(name, value) == {<<name, value>>}
\* req.params[name]: undefined (Absent) when the route has no such segment
ParamOf(p, name) ==
    IF \E e \in p : e[1] = name
    THEN Given((CHOOSE e \in p : e[1] = name)[2])
    ELSE Absent

\* router.get('/category/:category', getProductsByCategory) names the
\* segment category; the handler reads req.params.categoryId
CategoryRouteParam == "category"
CategoryHandlerParam == "categoryId"

\* Number(x): NaN for undefined, 0 for a blank string, the value of a string
\* that is a decimal numeral between blanks, NaN for any other string
NumberOf(x) ==
    IF ~x.given THEN NaN
    ELSE LET t == Trim(x.s)
             signed == t # <<>> /\ Head(t) \in {"+", "-"}
             ds == IF signed THEN Tail(t) ELSE t IN
         IF t = <<>> THEN Num(0)
         ELSE IF ds = <<>> \/ DigitPrefix(ds) # ds THEN NaN
         ELSE IF Head(t) = "-" THEN Num(-DecimalValue(ds))
         ELSE Num(DecimalValue(ds))

\* the category ids clients put in the path: of a category with one product,
\* with many, with none, and no number
CategoryPathIds == {<<"1">>, <<"2">>, <<"3">>, <<"x">>}

\* findMany({ where: { categoryId } }) has no orderBy: the store's order
StoreOrder == [field |-> IdColumn, dir |-> "asc"]

ListingIdle ==
    /\ query = NoQuery
    /\ params = NoParams
    /\ lpc = "idle"
    /\ pageNumber = 0
    /\ pageSize = 0
    /\ orderBy = OrderByOf(Absent, Absent)
    /\ where = NoWhere
    /\ fetched = <<>>
    /\ response = NoResponse
    /\ lcalls = <<>>
    /\ lfailed = 0
    /\ changed = FALSE


\* the cart side when the server starts: no request yet
CartInitWith(tables) ==
    /\ users = InitialUsers
    /\ cart \in tables
    /\ nextId = Cardinality(cart) + 1
    /\ req = [r \in Reqs |-> NoRequest]
    /\ pc = [r \in Reqs |-> "idle"]
    /\ status = [r \in Reqs |-> 0]
    /\ userId = [r \in Reqs |-> 0]
    /\ cartItem = [r \in Reqs |-> NoItem]
    /\ sent = 0
    /\ writes = [r \in Reqs |-> 0]
    /\ seq = [r \in Reqs |-> 0]
    /\ overlapped = [r \in Reqs |-> FALSE]
    /\ linesAtStart = [r \in Reqs |-> {}]
    /\ calls = [r \in Reqs |-> <<>>]
    /\ entered = [r \in Reqs |-> ""]
    /\ failed = [r \in Reqs |-> 0]
CartInit == CartInitWith(InitialCarts)

\* The cart routes alone: no listing request is sent. (The listing reads the
\* product table and writes nothing; the cart handlers read of a product
\* that its row exists.)
Init ==
    /\ CartInit
    /\ products = InitialProducts
    /\ catalog = {ProductRow(i) : i \in InitialProducts}
    /\ workload = "cart"
    /\ ListingIdle

Respond(r, code) ==
    /\ pc' = [pc EXCEPT ![r] = "done"]
    /\ status' = [status EXCEPT ![r] = code]

Goto(r, label) ==
    /\ pc' = [pc EXCEPT ![r] = label]
    /\ UNCHANGED status

\* catch (error) { res.status(500).json({ error }) } of addToCart and of
\* deleteCart
CaughtRetries(r) == Goto(r, pc[r])
Caught(r) == Respond(r, 500)

\* the store call the handler awaits fails
Fails(r) == failed' = [failed EXCEPT ![r] = Len(calls[r])]

\* the handler makes the store call named c, or none
Call(r, c) == calls' = [calls EXCEPT ![r] = Append(@, c)]
NoCall == UNCHANGED calls

\* addToCart up to the await of prisma.user.findUnique
AddToCartStartHeaderFirst(r, q) ==
    IF q.cred.k = "none" THEN Respond(r, 401) /\ NoCall
    ELSE IF Falsy(q.productId) THEN Respond(r, 400) /\ NoCall
    ELSE IF ~JwtVerify(q.cred).ok THEN Caught(r) /\ NoCall
    ELSE Goto(r, "add_user") /\ Call(r, "user.findUnique")
AddToCartStart(r, q) ==
    IF Falsy(q.productId) THEN Respond(r, 400) /\ NoCall
    ELSE IF q.cred.k = "none" THEN Respond(r, 401) /\ NoCall
    ELSE IF ~JwtVerify(q.cred).ok THEN Caught(r) /\ NoCall
    ELSE Goto(r, "add_user") /\ Call(r, "user.findUnique")

\* deleteCart up to the await of prisma.user.findUnique
DeleteCartStart(r, q) ==
    IF Falsy(q.itemId) THEN Respond(r, 400) /\ NoCall
    ELSE IF q.cred.k = "none" THEN Respond(r, 401) /\ NoCall
    ELSE IF ~JwtVerify(q.cred).ok THEN Caught(r) /\ NoCall
    ELSE Goto(r, "del_user") /\ Call(r, "user.findUnique")

\* A client sends a request. In one turn of the event loop express runs the
\* route's chain: the auth middleware, which answers 401 or calls next(),
\* and the handler up to its first await.
Dispatch(r, addChain, deleteChain) ==
    /\ pc[r] = "idle"
    /\ \A s \in Reqs : s < r => pc[s] # "idle"
    /\ sent < MaxRequests
    /\ \E q \in CartRequests(workload) :
        LET chain == IF q.route = "add" THEN addChain ELSE deleteChain
            handler == chain[Len(chain)] IN
        /\ req' = [req EXCEPT ![r] = q]
        /\ IF chain[1] = "auth" /\ ~AuthPasses(q.cred)
           THEN Respond(r, 401) /\ NoCall /\ UNCHANGED entered
           ELSE /\ entered' = [entered EXCEPT ![r] = handler]
                /\ IF handler = "addToCart"
                   THEN AddToCartStart(r, q)
                   ELSE DeleteCartStart(r, q)
        /\ linesAtStart' = [linesAtStart EXCEPT
                               ![r] = CartMatches(TargetUser(q), TargetProduct(q))]
    /\ sent' = sent + 1
    /\ seq' = [seq EXCEPT ![r] = sent + 1]
    /\ overlapped' = [s \in Reqs |->
                        IF s = r THEN \E o \in Reqs \ {r} : InProgress(o)
                        ELSE overlapped[s] \/ (InProgress(s) /\ InProgress(r)')]
    /\ UNCHANGED <<store, userId, cartItem, writes, failed, listing>>

Route(r) == Dispatch(r, CartAddRoute, CartDeleteRoute)

\* A caller invokes a handler directly with a request, without middleware.
Invoke(r) == Dispatch(r, AddToCartAlone, DeleteCartAlone)

\* prisma.user.findUnique answers; up to the await of product.findUnique
AddToCartUser(r) ==
    /\ pc[r] = "add_user"
    /\ LET decoded == JwtVerify(req[r].cred)
           user == UserFindUnique(decoded.userid) IN
       IF AddUserAbsent(user)
       THEN Respond(r, 401) /\ NoCall /\ UNCHANGED userId
       ELSE /\ Goto(r, "add_product") /\ Call(r, "product.findUnique")
            /\ userId' = [userId EXCEPT ![r] = decoded.userid]
    /\ UNCHANGED <<store, req, cartItem, sent, writes, hist, failed, listing>>

\* prisma.product.findUnique answers; up to the await of cart.findFirst
AddToCartProduct(r) ==
    /\ pc[r] = "add_product"
    /\ IF ProductAbsent(ProductFindUnique(req[r].productId.v))
       THEN Respond(r, 404) /\ NoCall
       ELSE Goto(r, "add_find") /\ Call(r, "cart.findFirst")
    /\ UNCHANGED <<store, req, userId, cartItem, sent, writes, hist, failed,
                   listing>>

\* prisma.cart.findFirst answers; up to the await of cart.update or create
AddToCartFind(r) ==
    /\ pc[r] = "add_find"
    /\ LET found == CartFindFirst(userId[r], req[r].productId) IN
        IF found = Rejected
        THEN Caught(r) /\ Fails(r) /\ NoCall /\ UNCHANGED cartItem
        ELSE /\ cartItem' = [cartItem EXCEPT ![r] = found]
             /\ IF found # NoItem
                THEN Goto(r, "add_update") /\ Call(r, "cart.update")
                ELSE Goto(r, "add_create") /\ Call(r, "cart.create")
             /\ UNCHANGED failed
    /\ UNCHANGED <<store, req, userId, sent, writes, hist, listing>>

\* the store applies the cart.update, cart.create or cart.delete the
\* handler awaits
CartUpdateApplies(r) == \E c \in cart : c.id = cartItem[r].id
CartUpdateAppliedToUser(r) ==
    /\ cart' = {IF c.userId = cartItem[r].userId
                THEN [c EXCEPT !.count =
                          UpdatedCount(cartItem[r], CountOf(req[r]))]
                ELSE c : c \in cart}
    /\ writes' = [writes EXCEPT ![r] = @ + 1]
    /\ UNCHANGED nextId
CartUpdateApplied(r) ==
    /\ cart' = {IF c.id = cartItem[r].id
                THEN [c EXCEPT !.count =
                          UpdatedCount(cartItem[r], CountOf(req[r]))]
                ELSE c : c \in cart}
    /\ writes' = [writes EXCEPT ![r] = @ + 1]
    /\ UNCHANGED nextId
CartCreateAppliesOncePerPair(r) ==
    CartMatches(userId[r], req[r].productId.v) = {}
CartCreateApplies(r) ==
    ~(CartUniqueUserProduct /\ CartMatches(userId[r], req[r].productId.v) # {})
CartCreateApplied(r) ==
    /\ cart' = cart \cup {[id |-> nextId, userId |-> userId[r],
                           productId |-> req[r].productId.v,
                           count |-> CountOf(req[r]).v]}
    /\ nextId' = nextId + 1
    /\ writes' = [writes EXCEPT ![r] = @ + 1]
CartDeleteApplies(r) == \E c \in cart : c.id = cartItem[r].id
CartDeleteApplied(r) ==
    /\ cart' = {c \in cart : c.id # cartItem[r].id}
    /\ writes' = [writes EXCEPT ![r] = @ + 1]
    /\ UNCHANGED nextId

\* prisma.cart.update({ where: { id }, data: { count } }) answers: it rejects
\* when no row has the id; then the response
AddToCartUpdate(r) ==
    /\ pc[r] = "add_update"
    /\ IF CartUpdateApplies(r)
       THEN /\ CartUpdateApplied(r)
            /\ Respond(r, 200)
            /\ UNCHANGED failed
       ELSE /\ UNCHANGED <<cart, nextId, writes>>
            /\ Caught(r) /\ Fails(r)
    /\ UNCHANGED <<users, products, req, userId, cartItem, sent, hist, calls,
                   listing>>

\* prisma.cart.create({ data: { userId, productId, count } }) answers: it
\* rejects when a unique index forbids the row; then the response
AddToCartCreate(r) ==
    /\ pc[r] = "add_create"
    /\ IF CartCreateApplies(r)
       THEN /\ CartCreateApplied(r)
            /\ Respond(r, 200)
            /\ UNCHANGED failed
       ELSE /\ UNCHANGED <<cart, nextId, writes>>
            /\ Caught(r) /\ Fails(r)
    /\ UNCHANGED <<users, products, req, userId, cartItem, sent, hist, calls,
                   listing>>

\* prisma.user.findUnique answers; up to the await of cart.findFirst
DeleteCartUser(r) ==
    /\ pc[r] = "del_user"
    /\ LET decoded == JwtVerify(req[r].cred)
           user == UserFindUnique(decoded.userid) IN
       IF DeleteUserAbsent(user)
       THEN Respond(r, 401) /\ NoCall /\ UNCHANGED userId
       ELSE /\ Goto(r, "del_find") /\ Call(r, "cart.findFirst")
            /\ userId' = [userId EXCEPT ![r] = decoded.userid]
    /\ UNCHANGED <<store, req, cartItem, sent, writes, hist, failed, listing>>

\* The store answers the pending cart call of deleteCart: cart.findFirst,
\* then (code up to the await of cart.delete) cart.delete({ where: { id } }),
\* which rejects when no row has the id; then the response.
DeleteCartStore(r) ==
    /\ pc[r] \in {"del_find", "del_delete"}
    /\ IF pc[r] = "del_find"
       THEN LET found == CartFindFirst(userId[r], req[r].itemId) IN
            /\ IF found = Rejected
               THEN Caught(r) /\ Fails(r) /\ NoCall /\ UNCHANGED cartItem
               ELSE IF found = NoItem
               THEN /\ Respond(r, 404) /\ NoCall
                    /\ UNCHANGED <<cartItem, failed>>
               ELSE /\ cartItem' = [cartItem EXCEPT ![r] = found]
                    /\ Goto(r, "del_delete") /\ Call(r, "cart.delete")
                    /\ UNCHANGED failed
            /\ UNCHANGED <<cart, nextId, writes>>
       ELSE /\ IF CartDeleteApplies(r)
               THEN /\ CartDeleteApplied(r)
                    /\ Respond(r, 200)
                    /\ UNCHANGED failed
               ELSE /\ UNCHANGED <<cart, nextId, writes>>
                    /\ Caught(r) /\ Fails(r)
            /\ UNCHANGED <<cartItem, calls>>
    /\ UNCHANGED <<users, products, req, userId, sent, hist, listing>>

\* The client has the response; the slot is free for the next request (while
\* a request is still to come).
Done(r) ==
    /\ pc[r] = "done"
    /\ sent < MaxRequests
    /\ req' = [req EXCEPT ![r] = NoRequest]
    /\ pc' = [pc EXCEPT ![r] = "idle"]
    /\ status' = [status EXCEPT ![r] = 0]
    /\ userId' = [userId EXCEPT ![r] = 0]
    /\ cartItem' = [cartItem EXCEPT ![r] = NoItem]
    /\ writes' = [writes EXCEPT ![r] = 0]
    /\ seq' = [seq EXCEPT ![r] = 0]
    /\ overlapped' = [overlapped EXCEPT ![r] = FALSE]
    /\ linesAtStart' = [linesAtStart EXCEPT ![r] = {}]
    /\ calls' = [calls EXCEPT ![r] = <<>>]
    /\ entered' = [entered EXCEPT ![r] = ""]
    /\ failed' = [failed EXCEPT ![r] = 0]
    /\ UNCHANGED <<store, sent, listing>>

\* ------------------------------------------------------------ the queries
\* with the cart routes and failing store calls: the first page, unfiltered
FaultQueries == {NoQuery}

\* Queries for pages: page and limit absent, empty, zero, positive, negative,
\* not a number ("x") and a number followed by a letter ("2x"); the sort by
\* price or id; sortOrder absent, "asc", "desc", "ASC" or empty; no filter,
\* or the filter categoryId=2&minPrice=10&maxPrice=50.
PageParams ==
    {Absent, Given(<<>>), Given(<<"0">>), Given(<<"1">>), Given(<<"2">>),
     Given(<<"3">>), Given(<<"-", "1">>), Given(<<"x">>), Given(<<"2", "x">>)}
LimitParams ==
    {Absent, Given(<<"0">>), Given(<<"1">>), Given(<<"2">>), Given(<<"5">>),
     Given(<<"1", "0">>), Given(<<"-", "2">>), Given(<<"x">>)}
Unfiltered == [categoryId |-> Absent, minPrice |-> Absent, maxPrice |-> Absent]
SortOrderParams ==
    {Absent, Given(AscLiteral), Given(DescLiteral),
     Given(<<"A", "S", "C">>), Given(<<>>)}
SampleFilter ==
    [categoryId |-> Given(<<"2">>), minPrice |-> Given(<<"1", "0">>),
     maxPrice |-> Given(<<"5", "0">>)]
PageQueries ==
    {[NoQuery EXCEPT !.page = p, !.limit = l, !.sortBy = b, !.sortOrder = o,
                     !.categoryId = f.categoryId, !.minPrice = f.minPrice,
                     !.maxPrice = f.maxPrice] :
        p \in PageParams, l \in LimitParams,
        b \in {Absent, Given(IdColumn)},
        o \in SortOrderParams,
        f \in {Unfiltered, SampleFilter}}

\* Queries with filters: every filter absent or given, a numeric filter also
\* as "x" and a price bound also as "0", the discount also as "1", a colour
\* list with a blank and lower-case letters.
IdParams == {Absent, Given(<<"1">>), Given(<<"x">>)}
CategoryParams == {Absent, Given(<<"2">>), Given(<<"x">>)}
ColorParams == {Absent, Given(<<"r", ",", " ", "b">>)}
SizeParams == {Absent, Given(<<"m">>)}
MinPriceParams == {Absent, Given(<<"0">>), Given(<<"2", "0">>), Given(<<"x">>)}
MaxPriceParams == {Absent, Given(<<"0">>), Given(<<"4", "0">>), Given(<<"x">>)}
DiscountParams ==
    {Absent, Given(TrueLiteral), Given(FalseLiteral), Given(<<"1">>)}
FilterQueries ==
    {[NoQuery EXCEPT !.categoryId = c, !.subcategoryId = u, !.brandId = b,
                     !.color = k, !.size = z, !.minPrice = lo,
                     !.maxPrice = hi, !.discount = d] :
        c \in CategoryParams, u \in IdParams, b \in IdParams,
        k \in ColorParams, z \in SizeParams, lo \in MinPriceParams,
        hi \in MaxPriceParams, d \in DiscountParams}

\* Listing queries beside the products-by-category requests: the pages
CategoryQueries == {[NoQuery EXCEPT !.page = p] : p \in PageParams}

\* the queries clients send under a workload
Queries(w) ==
    CASE w = "fault" -> FaultQueries
      [] w = "pages" -> PageQueries
      [] w = "filters" -> FilterQueries
      [] w = "category" -> CategoryQueries
      [] OTHER -> {}

\* A client sends GET /products/all (router.get('/all', getProducts), no
\* middleware): getProducts up to the await of prisma.product.findMany.
GetProductsStart ==
    /\ lpc = "idle"
    /\ sent < MaxRequests
    /\ \E q \in Queries(workload) :
        /\ query' = q
        /\ pageNumber' = PageNumberOf(q.page)
        /\ pageSize' = PageSizeOf(q.limit)
        /\ orderBy' = OrderByOf(q.sortBy, q.sortOrder)
        /\ where' = WhereOf(q)
        /\ lcalls' = <<FindManyCall(where', orderBy',
                                    SkipOf(pageNumber', pageSize'),
                                    pageSize')>>
    /\ lpc' = "findMany"
    /\ sent' = sent + 1
    /\ UNCHANGED <<catalog, workload, params, fetched, response, lfailed,
                   changed, products, carts>>

\* prisma.product.findMany answers; up to the await of prisma.product.count
GetProductsFindMany ==
    /\ lpc = "findMany"
    /\ LET call == lcalls[Len(lcalls)]
           rows == ProductFindMany(call.where, call.orderBy, call.skip,
                                   call.take) IN
       IF ~rows.ok
       THEN /\ GetProductsCaught
            /\ lfailed' = Len(lcalls)
            /\ UNCHANGED <<fetched, lcalls>>
       ELSE /\ fetched' = rows.rows
            /\ lpc' = "count"
            /\ lcalls' = Append(lcalls, CountCall(where))
            /\ UNCHANGED <<response, lfailed>>
    /\ UNCHANGED <<catalog, workload, query, params, pageNumber, pageSize, orderBy,
                   where, changed, products, sent, carts>>

\* prisma.product.count answers; then the response
GetProductsCount ==
    /\ lpc = "count"
    /\ LET totalProducts == ProductCount(lcalls[Len(lcalls)].where) IN
       IF ~totalProducts.ok
       THEN /\ GetProductsCaught
            /\ lfailed' = Len(lcalls)
       ELSE /\ lpc' = "done"
            /\ response' = [status |-> 200, data |-> fetched,
                            meta |-> MetaOf(totalProducts.n, pageSize,
                                            pageNumber)]
            /\ UNCHANGED lfailed
    /\ UNCHANGED <<catalog, workload, query, params, pageNumber, pageSize, orderBy,
                   where, fetched, lcalls, changed, products, sent, carts>>

\* prisma.product.delete({ where: { id } }) of a deleteProductById request
\* takes effect between the two store calls of a listing request (a row a
\* cart row refers to cannot be deleted).
ProductDelete ==
    /\ lpc = "count"
    /\ ~changed
    /\ \E p \in catalog :
        /\ \A c \in cart : c.productId # p.id
        /\ catalog' = catalog \ {p}
        /\ products' = products \ {p.id}
    /\ changed' = TRUE
    /\ UNCHANGED <<workload, query, params, lpc, pageNumber, pageSize, orderBy, where,
                   fetched, response, lcalls, lfailed, sent, carts>>

\* A client sends GET /products/category/<id> (router.get(
\* '/category/:category', getProductsByCategory), no middleware). The handler
\* up to the 400 answer or the await of prisma.product.findMany, and then
\* the answer of findMany: the rows with include of category, subcategory,
\* Brands, Colors, Size and User, which the store may accept or reject.
GetProductsByCategory ==
    /\ IF lpc = "idle"
       THEN /\ sent < MaxRequests
            /\ \E id \in CategoryPathIds :
                /\ params' = RouteParams(CategoryRouteParam, id)
                /\ LET categoryId ==
                           NumberOf(ParamOf(params', CategoryHandlerParam)) IN
                   IF categoryId.t = "nan"
                   THEN /\ lpc' = "done"
                        /\ response' = [status |-> 400, data |-> <<>>,
                                        meta |-> NoMeta]
                        /\ UNCHANGED lcalls
                   ELSE /\ lpc' = "byCategory"
                        /\ lcalls' = <<FindManyCall(
                               [NoWhere EXCEPT !.categoryId = categoryId],
                               StoreOrder, 0, Cardinality(catalog))>>
                        /\ UNCHANGED response
            /\ sent' = sent + 1
       ELSE /\ lpc = "byCategory"
            /\ lpc' = "done"
            /\ \E accepted \in BOOLEAN :
                LET call == lcalls[Len(lcalls)]
                    rows == ProductFindMany(call.where, call.orderBy,
                                            call.skip, call.take) IN
                response' = IF accepted /\ rows.ok
                            THEN [status |-> 200, data |-> rows.rows,
                                  meta |-> NoMeta]
                            ELSE [status |-> 500, data |-> <<>>,
                                  meta |-> NoMeta]
            /\ UNCHANGED <<params, lcalls, sent>>
    /\ UNCHANGED <<catalog, workload, query, pageNumber, pageSize, orderBy,
                   where, fetched, lfailed, changed, products, carts>>

\* ------------------------------------------------------------ store failures
\* The store call a cart handler awaits fails (the database is unreachable,
\* the call times out): the await throws into the handler's catch. A write may
\* or may not have been applied by then.
StoreFails(r) ==
    /\ InProgress(r)
    /\ \E applied \in BOOLEAN :
        IF applied /\ pc[r] = "add_update" /\ CartUpdateApplies(r)
        THEN CartUpdateApplied(r)
        ELSE IF applied /\ pc[r] = "add_create" /\ CartCreateApplies(r)
        THEN CartCreateApplied(r)
        ELSE IF applied /\ pc[r] = "del_delete" /\ CartDeleteApplies(r)
        THEN CartDeleteApplied(r)
        ELSE UNCHANGED <<cart, nextId, writes>>
    /\ Caught(r) /\ Fails(r)
    /\ UNCHANGED <<users, products, req, userId, cartItem, sent, hist, calls,
                   listing>>

\* the same for the store call getProducts awaits
GetProductsStoreFails ==
    /\ lpc \in {"findMany", "count"}
    /\ GetProductsCaught
    /\ lfailed' = Len(lcalls)
    /\ UNCHANGED <<catalog, workload, query, params, pageNumber, pageSize, orderBy,
                   where, fetched, lcalls, changed, products, sent, carts>>

\* ------------------------------------------------------------ specifications
\* the cart routes
Next ==
    \E r \in Reqs :
        \/ Route(r)
        \/ AddToCartUser(r)
        \/ AddToCartProduct(r)
        \/ AddToCartFind(r)
        \/ AddToCartUpdate(r)
        \/ AddToCartCreate(r)
        \/ DeleteCartUser(r)
        \/ DeleteCartStore(r)
        \/ Done(r)

Spec == Init /\ [][Next]_vars

\* The cart routes when clients send one request at a time: a request is
\* sent only when every earlier one has been answered.
NoneInProgress == \A o \in Reqs : ~InProgress(o)
RouteSerial(r) == NoneInProgress /\ Route(r)

NextSerial ==
    \E r \in Reqs :
        \/ RouteSerial(r)
        \/ AddToCartUser(r)
        \/ AddToCartProduct(r)
        \/ AddToCartFind(r)
        \/ AddToCartUpdate(r)
        \/ AddToCartCreate(r)
        \/ DeleteCartUser(r)
        \/ DeleteCartStore(r)
        \/ Done(r)

SpecSerial == Init /\ [][NextSerial]_vars

\* The handlers of the cart routes alone, called with any request.
InitHandlers ==
    /\ CartInit
    /\ products = InitialProducts
    /\ catalog = {ProductRow(i) : i \in InitialProducts}
    /\ workload = "handlers"
    /\ ListingIdle

NextHandlers ==
    \E r \in Reqs :
        \/ Invoke(r)
        \/ AddToCartUser(r)
        \/ AddToCartProduct(r)
        \/ AddToCartFind(r)
        \/ AddToCartUpdate(r)
        \/ AddToCartCreate(r)
        \/ DeleteCartUser(r)
        \/ DeleteCartStore(r)
        \/ Done(r)

SpecHandlers == InitHandlers /\ [][NextHandlers]_vars

\* The cart routes on a cart table that earlier requests have filled: user 1
\* has a row for product 1 and user 2 a row for product 2.
InitStocked ==
    /\ CartInitWith({StockedCart})
    /\ products = InitialProducts
    /\ catalog = {ProductRow(i) : i \in InitialProducts}
    /\ workload = "cart"
    /\ ListingIdle

SpecStocked == InitStocked /\ [][Next]_vars

\* The cart routes and the listing with store calls that can fail.
InitFault ==
    /\ CartInit
    /\ products = InitialProducts
    /\ catalog = {ProductRow(i) : i \in InitialProducts}
    /\ workload = "fault"
    /\ ListingIdle

NextFault ==
    \/ \E r \in Reqs :
        \/ Route(r)
        \/ AddToCartUser(r)
        \/ AddToCartProduct(r)
        \/ AddToCartFind(r)
        \/ AddToCartUpdate(r)
        \/ AddToCartCreate(r)
        \/ DeleteCartUser(r)
        \/ DeleteCartStore(r)
        \/ Done(r)
        \/ StoreFails(r)
    \/ GetProductsStart
    \/ GetProductsFindMany
    \/ GetProductsCount
    \/ GetProductsStoreFails

SpecFault == InitFault /\ [][NextFault]_vars

\* the listing alone, asked for pages
\* the product table of a listing: one of the tables of CatalogSizes
ListInit(w) ==
    /\ CartInit
    /\ catalog \in {Catalog(n) : n \in CatalogSizes}
    /\ products = IdsOf(catalog)
    /\ workload = w
    /\ ListingIdle

InitPages == ListInit("pages")

NextList ==
    \/ GetProductsStart
    \/ GetProductsFindMany
    \/ GetProductsCount
    \/ ProductDelete

SpecPages == InitPages /\ [][NextList]_vars

\* the listing alone, asked with filters
InitFilters == ListInit("filters")

SpecFilters == InitFilters /\ [][NextList]_vars

\* the listing and the products-by-category route
InitCategory == ListInit("category")

NextCategory ==
    \/ GetProductsStart
    \/ GetProductsFindMany
    \/ GetProductsCount
    \/ ProductDelete
    \/ GetProductsByCategory

SpecCategory == InitCategory /\ [][NextCategory]_vars

\* ------------------------------------------------------------ properties
Authenticated(q) == q.cred.k = "valid" /\ q.cred.userid \in users
Answered(r) == pc[r] = "done"
CartWriteCalls == {"cart.create", "cart.update", "cart.delete"}
CartCalls == CartWriteCalls \cup {"cart.findFirst"}
CallsOf(r) == {calls[r][i] : i \in 1..Len(calls[r])}
\* count of the request as the client means it: 1 when omitted
GivenCount(q) == IF q.count = Undef THEN 1 ELSE q.count.v

\* C1: in every reachable state there is at most one cart row for each
\* (userId, productId) pair, whatever requests ran and however their store
\* calls interleaved.
C1_OneLinePerPair ==
    \A u \in UserIds, p \in ProductIds : Cardinality(CartMatches(u, p)) <= 1

\* r2 is the request sent next after r1, both addToCart of the same
\* authenticated user for the same existing product, r1 answered before r2
\* was sent, no other request in progress meanwhile, and the user had no row
\* for the product when r1 was sent.
C2_Pair(r1, r2) ==
    /\ r1 # r2 /\ Answered(r1) /\ Answered(r2)
    /\ req[r1].route = "add" /\ req[r2].route = "add"
    /\ Authenticated(req[r1]) /\ req[r2].cred = req[r1].cred
    /\ req[r1].productId.t = "num" /\ req[r1].productId.v \in products
    /\ req[r2].productId = req[r1].productId
    /\ seq[r2] = seq[r1] + 1
    /\ ~overlapped[r1] /\ ~overlapped[r2]
    /\ linesAtStart[r1] = {}

\* C2: two addToCart requests in sequence by the same user for the same
\* existing product, with counts c1 and c2 (1 when omitted) and no row
\* before, leave exactly one row for (user, product), of quantity c1 + c2.
C2_SequentialAddsAccumulate ==
    \A r1, r2 \in Reqs :
        C2_Pair(r1, r2) =>
            \E c \in cart :
                /\ CartMatches(TargetUser(req[r1]), TargetProduct(req[r1])) = {c}
                /\ c.count = GivenCount(req[r1]) + GivenCount(req[r2])

C2_Witness ==
    \E r1, r2 \in Reqs :
        /\ C2_Pair(r1, r2)
        /\ req[r1].count = Num(2) /\ req[r2].count = Undef
        /\ status[r1] = 200 /\ status[r2] = 200
        /\ \E c \in cart : c.count = 3

\* C3: an addToCart request of an authenticated user whose productId names
\* no product is answered 404; the handler has made no cart call (the
\* product lookup is its last store call) and the store applied no cart
\* write for it.
C3_NonexistentProduct ==
    \A r \in Reqs :
        ( /\ Answered(r) /\ req[r].route = "add" /\ Authenticated(req[r])
          /\ req[r].productId.t = "num" /\ req[r].productId.v # 0
          /\ req[r].productId.v \notin products )
        => /\ status[r] = 404
           /\ calls[r] = <<"user.findUnique", "product.findUnique">>
           /\ writes[r] = 0

C3_Witness ==
    \E r \in Reqs :
        /\ Answered(r) /\ req[r].route = "add" /\ req[r].cred = Token(1)
        /\ req[r].productId = Num(3) /\ status[r] = 404
        /\ cart # {} /\ linesAtStart[r] = {}

\* C4: a POST /cart/add request without Authorization header is answered
\* 401 whatever its body, makes no store call and changes no cart row.
C4_NoCredential ==
    \A r \in Reqs :
        (Answered(r) /\ req[r].route = "add" /\ req[r].cred = NoHeader)
        => status[r] = 401 /\ calls[r] = <<>> /\ writes[r] = 0

C4_Witness ==
    \E r1, r2 \in Reqs :
        /\ Answered(r1) /\ req[r1].route = "add" /\ req[r1].cred = NoHeader
        /\ req[r1].productId = Undef /\ status[r1] = 401
        /\ Answered(r2) /\ req[r2].route = "add" /\ req[r2].cred = NoHeader
        /\ req[r2].productId = Num(1) /\ status[r2] = 401

\* C5: a request to either cart route whose token is malformed, wrongly
\* signed or expired is answered 401 and changes no cart row.
C5_BadCredential ==
    \A r \in Reqs :
        (Answered(r) /\ req[r].cred \in BadTokens)
        => status[r] = 401 /\ writes[r] = 0 /\ CallsOf(r) \cap CartCalls = {}

C5_Witness ==
    \E r1, r2 \in Reqs :
        /\ Answered(r1) /\ req[r1].route = "add" /\ req[r1].cred.k = "badsig"
        /\ req[r1].productId = Num(1) /\ status[r1] = 401
        /\ Answered(r2) /\ req[r2].route = "delete" /\ req[r2].cred.k = "expired"
        /\ status[r2] = 401

\* C6: every cart write a handler issues comes after the user lookup of the
\* same request, for a token that verifies and a user that exists, and is
\* made in that user's name; a request whose token does not verify, or
\* whose user does not exist, issues no cart write.
C6_WriteAfterAuth ==
    \A r \in Reqs :
        /\ \A i \in 1..Len(calls[r]) :
              calls[r][i] \in CartWriteCalls =>
                  /\ JwtVerify(req[r].cred).ok
                  /\ req[r].cred.userid \in users
                  /\ userId[r] = req[r].cred.userid
                  /\ \E j \in 1..(i - 1) : calls[r][j] = "user.findUnique"
        /\ ~Authenticated(req[r]) => writes[r] = 0 /\ CallsOf(r) \cap CartWriteCalls = {}

C6_Witness ==
    \E r1, r2 \in Reqs :
        /\ status[r1] = 200 /\ writes[r1] = 1 /\ "cart.create" \in CallsOf(r1)
        /\ Answered(r2) /\ req[r2].cred = Token(3) /\ status[r2] = 401
        /\ entered[r2] # ""

\* C7: a deleteCart request of an authenticated user whose itemId names a
\* product the user has a cart row for, with no other request in progress
\* meanwhile, is answered 200, and the user has no row for the product as
\* long as no later request was sent.
C7_DeleteRemovesLine ==
    \A r \in Reqs :
        ( /\ Answered(r) /\ req[r].route = "delete" /\ Authenticated(req[r])
          /\ linesAtStart[r] # {} /\ ~overlapped[r] )
        => /\ status[r] = 200
           /\ (\A s \in Reqs : seq[s] <= seq[r])
                 => CartMatches(TargetUser(req[r]), TargetProduct(req[r])) = {}

\* C8: a deleteCart request of an authenticated user whose itemId names a
\* product the user has no cart row for is answered 404 and changes no
\* cart row.
C8_DeleteMissingLine ==
    \A r \in Reqs :
        ( /\ Answered(r) /\ req[r].route = "delete" /\ Authenticated(req[r])
          /\ linesAtStart[r] = {} /\ ~overlapped[r] )
        => status[r] = 404 /\ writes[r] = 0

\* C9: every cart row has a quantity of at least 1, whatever counts the
\* requests supplied.
C9_QuantityAtLeastOne == \A c \in cart : c.count >= 1

\* C10: an addToCart call whose body has no productId is answered 400
\* before the handler makes any store call.
C10_MissingProductId ==
    \A r \in Reqs :
        (Answered(r) /\ entered[r] = "addToCart" /\ req[r].productId = Undef)
        => status[r] = 400 /\ calls[r] = <<>> /\ writes[r] = 0 /\ userId[r] = 0

C10_Witness ==
    \E r \in Reqs :
        /\ Answered(r) /\ entered[r] = "addToCart" /\ req[r].productId = Undef
        /\ req[r].cred = Token(1) /\ req[r].count = Num(2)
        /\ status[r] = 400 /\ cart # {}

\* C11: when a store call of addToCart, deleteCart or getProducts fails, the
\* request is answered 500 and the handler makes no store call after the
\* failing one: the call is not repeated, and no call undoes a write the
\* request had applied.
C11_StoreFailure ==
    /\ \A r \in Reqs :
        failed[r] > 0 =>
            /\ Answered(r) /\ status[r] = 500
            /\ Len(calls[r]) = failed[r]
            /\ writes[r] > 0 => \E c \in cart : c.userId = userId[r]
    /\ lfailed > 0 =>
        /\ lpc = "done" /\ response.status = 500
        /\ Len(lcalls) = lfailed

\* a failed request whose write the store had applied, and a failed listing
C11_Witness ==
    \E r \in Reqs :
        /\ failed[r] > 0 /\ writes[r] > 0
        /\ lfailed > 0

\* the listing request is answered 200; its meta; the arguments of its
\* findMany call
Listed == lpc = "done" /\ response.status = 200
Meta == response.meta
FindManyArgs == lcalls[1]

\* C12: for every totalProducts >= 0 and every page size >= 1 the totalPages
\* of the meta is the least integer not below totalProducts / pageSize, 0 when
\* totalProducts is 0; and the pageSize and currentPage of the meta are the
\* take of the findMany call and the page whose skip it passed.
C12_TotalPages ==
    Listed /\ Meta.totalProducts >= 0 /\ FindManyArgs.take >= 1 =>
        /\ Meta.totalPages * Meta.pageSize >= Meta.totalProducts
        /\ (Meta.totalPages - 1) * Meta.pageSize < Meta.totalProducts
        /\ Meta.totalProducts = 0 => Meta.totalPages = 0
        /\ Meta.pageSize = FindManyArgs.take
        /\ (Meta.currentPage - 1) * Meta.pageSize = FindManyArgs.skip

\* twelve products in pages of five are three pages
C12_Witness ==
    /\ Listed /\ FindManyArgs.take = 5
    /\ Meta.totalProducts = 12 /\ Meta.totalPages = 3

\* a listing request has been sent and getProducts has read its query
Asked == lpc # "idle"

\* a parameter from which no number is read: a string that does not begin,
\* after blanks and a sign, with a digit ("2x" begins with one)
LeadsWithNumber(str) ==
    \E k \in 1..Len(str) :
        /\ str[k] \in Digits
        /\ \A j \in 1..(k - 1) :
            str[j] = " " \/ (j = k - 1 /\ str[j] \in {"+", "-"})
NonNumeric(x) == x.given /\ ~LeadsWithNumber(x.s)

Numerals ==
    {<<"0">>, <<"1">>, <<"2">>, <<"3">>, <<"5">>, <<"1", "0">>, <<"2", "0">>,
     <<"4", "0">>, <<"5", "0">>, <<"-", "1">>, <<"-", "2">>}
NumeralValue(str) ==
    CASE str = <<"0">> -> 0 [] str = <<"1">> -> 1 [] str = <<"2">> -> 2
      [] str = <<"3">> -> 3 [] str = <<"5">> -> 5 [] str = <<"1", "0">> -> 10
      [] str = <<"2", "0">> -> 20 [] str = <<"4", "0">> -> 40
      [] str = <<"5", "0">> -> 50 [] str = <<"-", "1">> -> -1
      [] str = <<"-", "2">> -> -2
Numeric(x) == x.given /\ x.s \in Numerals
Supplied(x) == NumeralValue(x.s)

\* C14 as stated: a numeric page or limit that is zero or negative is the
\* page number or page size of the request as supplied. A page or limit of 0
\* refutes it.
C14_NonPositiveKept ==
    Asked =>
        /\ Numeric(query.page) /\ Supplied(query.page) <= 0 =>
            pageNumber = Supplied(query.page)
        /\ Numeric(query.limit) /\ Supplied(query.limit) <= 0 =>
            pageSize = Supplied(query.limit)

\* C14, amended: a negative numeric page or limit is the page number or page
\* size of the request as supplied: the take of the window is the limit, its
\* skip is (page - 1) * size, and a 200 answer reports both in the meta. A
\* page of 0 is replaced by 1 and a limit of 0 by 10.
C14_NegativeKeptZeroReplaced ==
    Asked =>
        /\ Numeric(query.page) /\ Supplied(query.page) < 0 =>
            /\ pageNumber = Supplied(query.page)
            /\ FindManyArgs.skip = (Supplied(query.page) - 1) * FindManyArgs.take
            /\ Listed => Meta.currentPage = Supplied(query.page)
        /\ Numeric(query.limit) /\ Supplied(query.limit) < 0 =>
            /\ pageSize = Supplied(query.limit)
            /\ FindManyArgs.take = Supplied(query.limit)
            /\ Listed => Meta.pageSize = Supplied(query.limit)
        /\ Numeric(query.page) /\ Supplied(query.page) = 0 =>
            /\ pageNumber = DefaultPage
            /\ Listed => Meta.currentPage = DefaultPage
        /\ Numeric(query.limit) /\ Supplied(query.limit) = 0 =>
            /\ pageSize = DefaultLimit
            /\ FindManyArgs.take = DefaultLimit
            /\ Listed => Meta.pageSize = DefaultLimit

\* page=-1&limit=-2 is answered with these values in the meta
C14_Witness ==
    /\ Listed
    /\ query.page = Given(<<"-", "1">>) /\ query.limit = Given(<<"-", "2">>)
    /\ Meta.currentPage = -1 /\ Meta.pageSize = -2

\* What the client of a page query means: the rows it asks for (of the
\* category, with a price within the bounds), and their order (by price
\* unless by id, ascending when sortOrder is absent or "asc").
Wanted(p) ==
    /\ Numeric(query.categoryId) => p.categoryId = Supplied(query.categoryId)
    /\ Numeric(query.minPrice) => p.price >= Supplied(query.minPrice)
    /\ Numeric(query.maxPrice) => p.price <= Supplied(query.maxPrice)
WantedRows == {p \in catalog : Wanted(p)}
WantedKey(p) == IF query.sortBy = Given(IdColumn) THEN p.id ELSE p.price
ComesBefore(o, p) ==
    IF query.sortOrder \in {Absent, Given(AscLiteral)}
    THEN WantedKey(o) < WantedKey(p)
    ELSE WantedKey(o) > WantedKey(p)
\* position of a row among the wanted rows in their order, from 1
Position(p) == Cardinality({o \in WantedRows : ComesBefore(o, p)}) + 1

\* C15: for page p >= 1 and size s >= 1, and a product table that does not
\* change during the request, the data of a 200 answer are the rows at
\* positions (p-1)*s+1 .. min(p*s, N) of the N matching rows in the order of
\* the sort key and direction, and totalProducts is N.
C15_PageWindow ==
    /\ Listed /\ ~changed
    /\ Numeric(query.page) /\ Supplied(query.page) >= 1
    /\ Numeric(query.limit) /\ Supplied(query.limit) >= 1
    => LET p == Supplied(query.page)
           s == Supplied(query.limit)
           N == Cardinality(WantedRows)
           last == IF p * s <= N THEN p * s ELSE N IN
       /\ Len(response.data) = IF last >= (p - 1) * s THEN last - (p - 1) * s
                               ELSE 0
       /\ \A i \in 1..Len(response.data) :
            /\ response.data[i] \in WantedRows
            /\ Position(response.data[i]) = (p - 1) * s + i
       /\ Meta.totalProducts = N

\* the sample of the specification: of twelve matching products, page 2 of
\* size 5 holds the sixth to the tenth by price
C15_Witness ==
    /\ Listed /\ ~changed
    /\ query.page = Given(<<"2">>) /\ query.limit = Given(<<"5">>)
    /\ query.categoryId = SampleFilter.categoryId
    /\ ~query.sortBy.given /\ ~query.sortOrder.given
    /\ Meta = [totalProducts |-> 12, totalPages |-> 3, currentPage |-> 2,
               pageSize |-> 5]
    /\ [i \in 1..Len(response.data) |-> response.data[i].price]
           = <<28, 31, 37, 40, 43>>

\* the colours and sizes a client means by the lists it sends
ColorsMeant(x) == IF x.s = <<"r", ",", " ", "b">> THEN {<<"R">>, <<"B">>} ELSE {}
SizesMeant(x) == IF x.s = <<"m">> THEN {<<"M">>} ELSE {}

\* a product satisfies every filter the query gives
SatisfiesFilters(p) ==
    /\ Numeric(query.categoryId) => p.categoryId = Supplied(query.categoryId)
    /\ Numeric(query.subcategoryId) =>
        p.subcategoryId = Supplied(query.subcategoryId)
    /\ Numeric(query.brandId) => p.brandsId = Supplied(query.brandId)
    /\ Numeric(query.minPrice) => p.price >= Supplied(query.minPrice)
    /\ Numeric(query.maxPrice) => p.price <= Supplied(query.maxPrice)
    /\ query.discount = Given(TrueLiteral) => p.discount > 0
    /\ query.discount = Given(FalseLiteral) => p.discount = 0
    /\ query.color.given => p.Colors \cap ColorsMeant(query.color) # {}
    /\ query.size.given => p.Size \cap SizesMeant(query.size) # {}

\* C16: whatever filters a listing request combines, every product of a 200
\* answer satisfies each of them: the category, subcategory and brand are
\* the given ones, the price is within the given bounds, the discount is as
\* the flag says, and the product has one of the listed colours and one of
\* the listed sizes.
C16_ReturnedSatisfyFilters ==
    Listed => \A i \in 1..Len(response.data) : SatisfiesFilters(response.data[i])

\* a request with every filter at once, answered with the one product that
\* satisfies them all
C16_Witness ==
    /\ Listed
    /\ Numeric(query.categoryId) /\ Numeric(query.subcategoryId)
    /\ Numeric(query.brandId) /\ query.color.given /\ query.size.given
    /\ query.minPrice = Given(<<"2", "0">>)
    /\ query.maxPrice = Given(<<"4", "0">>)
    /\ query.discount = Given(FalseLiteral)
    /\ Len(response.data) = 1

\* C17: the findMany call and the count call of a listing request carry the
\* same where; and when the product table does not change between the two
\* calls, totalProducts is the number of products that satisfy the filters
\* of the query and the answer holds no more products than that.
C17_SamePredicate ==
    /\ Len(lcalls) >= 2 =>
        /\ lcalls[1].name = "product.findMany"
        /\ lcalls[2].name = "product.count"
        /\ lcalls[2].where = lcalls[1].where
    /\ Listed /\ ~changed =>
        /\ Meta.totalProducts =
               Cardinality({p \in catalog : SatisfiesFilters(p)})
        /\ Len(response.data) <= Meta.totalProducts

\* a filtered listing with more matching products than a page holds
C17_Witness ==
    /\ Listed /\ ~changed
    /\ Numeric(query.categoryId)
    /\ Len(response.data) = 10 /\ Meta.totalProducts = 14

\* the price clause the handler passes to the store
PriceClausePassed == FindManyArgs.where.price

\* the numeric filters of the query
NumericFilters ==
    {query.categoryId, query.subcategoryId, query.brandId, query.minPrice,
     query.maxPrice}

\* C18: a non-numeric value for categoryId, subcategoryId, brandId, minPrice
\* or maxPrice leaves the clause of that filter out of the where passed to
\* the store; the request is answered 200 and the other filters are applied:
\* totalProducts counts the products that satisfy them.
C18_NonNumericFilterOmitted ==
    /\ Asked =>
        /\ NonNumeric(query.categoryId) =>
            FindManyArgs.where.categoryId = Undef
        /\ NonNumeric(query.subcategoryId) =>
            FindManyArgs.where.subcategoryId = Undef
        /\ NonNumeric(query.brandId) => FindManyArgs.where.brandsId = Undef
        /\ NonNumeric(query.minPrice) => PriceClausePassed.gte = Undef
        /\ NonNumeric(query.maxPrice) => PriceClausePassed.lte = Undef
    /\ lpc = "done" /\ (\E x \in NumericFilters : NonNumeric(x)) =>
        /\ response.status = 200
        /\ ~changed => Meta.totalProducts =
                           Cardinality({p \in catalog : SatisfiesFilters(p)})

UsableBound(x) == ~x.given \/ Numeric(x)

\* C19: the price clause of the where passed to the store is the closed
\* range [minPrice, maxPrice] when both bounds are given, a bound of 0
\* included; price >= minPrice when only minPrice is given; price <= maxPrice
\* when only maxPrice is given; and absent when neither is given.
C19_PriceClause ==
    Asked /\ UsableBound(query.minPrice) /\ UsableBound(query.maxPrice) =>
        /\ PriceClausePassed.gte =
               IF query.minPrice.given THEN Num(Supplied(query.minPrice))
               ELSE Undef
        /\ PriceClausePassed.lte =
               IF query.maxPrice.given THEN Num(Supplied(query.maxPrice))
               ELSE Undef

\* minPrice=0&maxPrice=0 is answered with the one product of price 0
C19_Witness ==
    /\ Listed
    /\ query.minPrice = Given(<<"0">>) /\ query.maxPrice = Given(<<"0">>)
    /\ PriceClausePassed = [gte |-> Num(0), lte |-> Num(0)]
    /\ Len(response.data) = 1 /\ response.data[1].price = 0

\* the discount clause the handler passes to the store
DiscountClausePassed == FindManyArgs.where.discount

\* C20: the where passed to the store has the clause discount > 0 exactly
\* when the discount parameter is "true", the clause discount = 0 exactly
\* when it is "false", and no discount clause for any other value or none.
C20_DiscountClause ==
    Asked =>
        /\ DiscountClausePassed = [t |-> "gt", v |-> 0]
               <=> query.discount = Given(<<"t", "r", "u", "e">>)
        /\ DiscountClausePassed = Num(0)
               <=> query.discount = Given(<<"f", "a", "l", "s", "e">>)
        /\ DiscountClausePassed = Undef
               <=> query.discount \notin {Given(<<"t", "r", "u", "e">>),
                                          Given(<<"f", "a", "l", "s", "e">>)}

\* discount=1 lists products with and without a discount
C20_Witness ==
    /\ Listed
    /\ query.discount = Given(<<"1">>)
    /\ DiscountClausePassed = Undef
    /\ \E i, j \in 1..Len(response.data) :
           response.data[i].discount = 0 /\ response.data[j].discount > 0

\* ------------------------------------------------------------ C21
\* the direction the claim gives for a sortOrder parameter
DirectionMeant(x) ==
    IF x = Absent \/ x = Given(AscLiteral) THEN "asc" ELSE "desc"
\* the rows of an answer are in a direction by price
InPriceOrder(rows, dir) ==
    \A i, j \in 1..Len(rows) :
        i < j => IF dir = "asc" THEN rows[i].price <= rows[j].price
                 ELSE rows[i].price >= rows[j].price

\* C21: the sort key passed to the store is price when sortBy is absent, the
\* direction is ascending when sortOrder is absent or "asc" and descending
\* for every other value; no sortOrder value is answered with a validation
\* error (a request whose other parameters are absent is answered 200), and
\* the rows of a 200 answer sorted by price are in that direction.
C21_SortDefaults ==
    Asked =>
        /\ ~query.sortBy.given => FindManyArgs.orderBy.field = PriceColumn
        /\ FindManyArgs.orderBy.dir = DirectionMeant(query.sortOrder)
        /\ response.status # 400
        /\ lpc = "done" /\ ~query.page.given /\ ~query.limit.given
             /\ ~query.categoryId.given
           => response.status = 200
        /\ Listed /\ ~query.sortBy.given
           => InPriceOrder(response.data, DirectionMeant(query.sortOrder))

\* a listing with sortOrder=ASC and no sortBy is answered 200 with several
\* rows, the dearest first
C21_Witness ==
    /\ Listed /\ ~query.sortBy.given
    /\ query.sortOrder = Given(<<"A", "S", "C">>)
    /\ Len(response.data) >= 2
    /\ response.data[1].price > response.data[2].price

\* ------------------------------------------------------------ C22
\* the lists a client means by the colour and size parameters it sends, in
\* the order it wrote them
ColorListMeant(x) ==
    IF x.s = <<"r", ",", " ", "b">> THEN << <<"R">>, <<"B">> >> ELSE <<>>
SizeListMeant(x) == IF x.s = <<"m">> THEN << <<"M">> >> ELSE <<>>
ColorsPassed == FindManyArgs.where.Colors
SizesPassed == FindManyArgs.where.Size

\* C22: a color or size parameter reaches the store as the list of its
\* comma-separated elements, trimmed and in upper case, under hasSome, and
\* no clause is passed for an absent parameter; the products of a 200
\* answer each have at least one listed colour and one listed size, and
\* with an unchanged product table totalProducts counts exactly the
\* products that satisfy the filters, those with one listed value included.
C22_ListedValuesAnyOf ==
    Asked =>
        /\ ColorsPassed = IF query.color.given
                          THEN [on |-> TRUE,
                                hasSome |-> ColorListMeant(query.color)]
                          ELSE NoSetClause
        /\ SizesPassed = IF query.size.given
                         THEN [on |-> TRUE,
                               hasSome |-> SizeListMeant(query.size)]
                         ELSE NoSetClause
        /\ Listed =>
            \A i \in 1..Len(response.data) :
                /\ query.color.given =>
                    \E k \in 1..Len(ColorListMeant(query.color)) :
                        ColorListMeant(query.color)[k]
                            \in response.data[i].Colors
                /\ query.size.given =>
                    \E k \in 1..Len(SizeListMeant(query.size)) :
                        SizeListMeant(query.size)[k] \in response.data[i].Size
        /\ Listed /\ ~changed =>
            Meta.totalProducts
                = Cardinality({p \in catalog : SatisfiesFilters(p)})

\* color=r, b alone: of the fifteen products the twelve with a colour match,
\* and the answer holds a product that is red but not blue
C22_Witness ==
    /\ Listed /\ ~changed
    /\ query = [NoQuery EXCEPT !.color = Given(<<"r", ",", " ", "b">>)]
    /\ Meta.totalProducts = 12
    /\ \E i \in 1..Len(response.data) : response.data[i].Colors = {<<"R">>}

\* ------------------------------------------------------------ C23
\* the id in the path of a products-by-category request
PathId == (CHOOSE e \in params : TRUE)[2]
ByCategoryAnswered == lpc = "done" /\ params # NoParams

\* C23: a products-by-category request with a numeric id in its path is
\* answered 200 with exactly the products whose categoryId is that id, and a
\* 400 answer is given only to an id that is not a number.
C23_ByCategory ==
    ByCategoryAnswered =>
        /\ PathId \in Numerals =>
            /\ response.status = 200
            /\ {response.data[i] : i \in 1..Len(response.data)}
                   = {p \in catalog : p.categoryId = NumeralValue(PathId)}
        /\ response.status = 400 => PathId \notin Numerals

\* ------------------------------------------------------------ C24
\* r1 and r2 are addToCart requests of the same authenticated user for the
\* same existing product, in progress at the same time, sent when the user
\* had no row for the product
C24_Pair(r1, r2) ==
    /\ r1 # r2
    /\ req[r1].route = "add" /\ req[r2].route = "add"
    /\ Authenticated(req[r1]) /\ req[r2].cred = req[r1].cred
    /\ req[r1].productId.t = "num" /\ req[r1].productId.v \in products
    /\ req[r2].productId = req[r1].productId
    /\ overlapped[r1] /\ overlapped[r2]
    /\ linesAtStart[r1] = {} /\ linesAtStart[r2] = {}
\* the lookup of the request found no row and the handler issued a create
ObservedNoLine(r) ==
    /\ cartItem[r] = NoItem
    /\ calls[r] = <<"user.findUnique", "product.findUnique",
                    "cart.findFirst", "cart.create">>

\* C24: when both of two such concurrent requests complete their lookup
\* before either writes, both have observed no row and both issue a create;
\* the store refuses neither, so once both are answered both were answered
\* 200 with one write each and the pair has two rows.
C24_BothCreate ==
    \A r1, r2 \in Reqs :
        C24_Pair(r1, r2) =>
            /\ (pc[r1] = "add_create" /\ pc[r2] \in {"add_find", "add_create"}
                 /\ writes[r1] = 0)
                => /\ ObservedNoLine(r1)
                   /\ CartFindFirst(userId[r2], req[r2].productId) = NoItem
            /\ (ObservedNoLine(r1) /\ ObservedNoLine(r2)
                 /\ Answered(r1) /\ Answered(r2))
                => /\ status[r1] = 200 /\ status[r2] = 200
                   /\ writes[r1] = 1 /\ writes[r2] = 1
                   /\ Cardinality(CartMatches(TargetUser(req[r1]),
                                              TargetProduct(req[r1]))) = 2

\* both lookups done before either write
C24_BothLookedUp ==
    \E r1, r2 \in Reqs :
        /\ C24_Pair(r1, r2)
        /\ pc[r1] = "add_create" /\ pc[r2] = "add_create"
        /\ ObservedNoLine(r1) /\ ObservedNoLine(r2)
        /\ cart = {}

\* both answered 200, two rows for the pair
C24_Witness ==
    \E r1, r2 \in Reqs :
        /\ C24_Pair(r1, r2)
        /\ ObservedNoLine(r1) /\ ObservedNoLine(r2)
        /\ status[r1] = 200 /\ status[r2] = 200
        /\ Cardinality(CartMatches(TargetUser(req[r1]),
                                   TargetProduct(req[r1]))) = 2

\* ------------------------------------------------------------ C25
\* r1 and r2 are addToCart requests of the same authenticated user for the
\* same product, in progress at the same time, both sent when the user had
\* the one row c for the product
C25_Pair(r1, r2, c) ==
    /\ r1 # r2
    /\ req[r1].route = "add" /\ req[r2].route = "add"
    /\ Authenticated(req[r1]) /\ req[r2].cred = req[r1].cred
    /\ req[r1].productId.t = "num" /\ req[r2].productId = req[r1].productId
    /\ overlapped[r1] /\ overlapped[r2]
    /\ linesAtStart[r1] = {c} /\ linesAtStart[r2] = {c}

\* C25: when two concurrent addToCart requests with counts c1 and c2 (1 when
\* omitted) for a pair with an existing row of quantity q are both answered
\* 200, the row's quantity is q + c1 + c2.
C25_NoLostIncrement ==
    \A r1, r2 \in Reqs :
        \A c \in linesAtStart[r1] :
            ( /\ C25_Pair(r1, r2, c)
              /\ Answered(r1) /\ status[r1] = 200
              /\ Answered(r2) /\ status[r2] = 200 )
            => \E d \in cart :
                  /\ d.id = c.id
                  /\ d.count = c.count + GivenCount(req[r1])
                                       + GivenCount(req[r2])

\* ------------------------------------------------------------ C26
\* C26: when every addToCart and deleteCart request runs to completion
\* before the next one is sent, then from an empty cart table every
\* reachable state has at most one cart row for each (userId, productId)
\* pair, and no request has been in progress together with another.
C26_SerialOneLinePerPair ==
    /\ \A r \in Reqs : ~overlapped[r]
    /\ \A u \in UserIds, p \in ProductIds :
          \A c, d \in CartMatches(u, p) : c = d

\* the second of two addToCart requests for one pair has found the row of
\* the first and updated it; the user has that one row
C26_Witness ==
    \E r1, r2 \in Reqs :
        /\ C2_Pair(r1, r2)
        /\ status[r1] = 200 /\ status[r2] = 200
        /\ "cart.create" \in CallsOf(r1) /\ "cart.update" \in CallsOf(r2)
        /\ Cardinality(cart) = 1

\* ------------------------------------------------------------ C27
\* the checks of addToCart a request fails, numbered in the order of the
\* claim: 1 no productId, 2 no authorization header, 3 no such user, 4 no
\* such product
FailedChecks(q) ==
    (IF q.productId = Undef THEN {1} ELSE {})
    \cup (IF q.cred = NoHeader THEN {2} ELSE {})
    \cup (IF q.cred.userid \notin users THEN {3} ELSE {})
    \cup (IF q.productId = Undef \/ q.productId.v \notin products
          THEN {4} ELSE {})
EarliestFailed(q) == CHOOSE i \in FailedChecks(q) : \A j \in FailedChecks(q) : i <= j
StatusOfCheck(i) == CASE i = 1 -> 400 [] i = 2 -> 401 [] i = 3 -> 401 [] OTHER -> 404
\* the store calls addToCart has made when check i fails
CallsBeforeCheck(i) ==
    CASE i = 3 -> <<"user.findUnique">>
      [] i = 4 -> <<"user.findUnique", "product.findUnique">>
      [] OTHER -> <<>>

\* C27: addToCart, called with a request whose token verifies or is absent,
\* answers with the status of the earliest check the request fails, in the
\* order no productId (400), no authorization header (401), no such user
\* (401), no such product (404), having made the store calls up to that
\* check only.
C27_CheckOrder ==
    \A r \in Reqs :
        ( /\ Answered(r) /\ entered[r] = "addToCart"
          /\ req[r].cred.k \in {"none", "valid"}
          /\ FailedChecks(req[r]) # {} )
        => /\ status[r] = StatusOfCheck(EarliestFailed(req[r]))
           /\ calls[r] = CallsBeforeCheck(EarliestFailed(req[r]))
           /\ writes[r] = 0

\* a request without productId and without header is answered 400, and one
\* of no user for no product 401
C27_Witness ==
    \E r1, r2 \in Reqs :
        /\ Answered(r1) /\ entered[r1] = "addToCart"
        /\ req[r1].productId = Undef /\ req[r1].cred = NoHeader
        /\ status[r1] = 400
        /\ Answered(r2) /\ entered[r2] = "addToCart"
        /\ req[r2].productId = Num(3) /\ req[r2].cred = Token(3)
        /\ status[r2] = 401

\* ------------------------------------------------------------ C28
\* the cart rows other than those of user u for product p
OtherLines(rows, u, p) == {c \in rows : ~(c.userId = u /\ c.productId = p)}

\* C28: every step leaves the user and the product table as they are, and a
\* step that changes the cart table is a write of one addToCart or
\* deleteCart request, of user U for product P, that leaves every row other
\* than those of (U, P) in the table with its quantity.
C28_Frame ==
    [][ /\ users' = users
        /\ products' = products
        /\ cart' # cart =>
            \E r \in Reqs :
                /\ writes'[r] = writes[r] + 1
                /\ \A o \in Reqs \ {r} : writes'[o] = writes[o]
                /\ Authenticated(req[r])
                /\ OtherLines(cart', TargetUser(req[r]), TargetProduct(req[r]))
                     = OtherLines(cart, TargetUser(req[r]),
                                  TargetProduct(req[r])) ]_vars

\* user 1 has added product 2 and then product 1 again: the row for
\* (1, 2) and the row of user 2 are as before the second request
C28_Witness ==
    \E r1, r2 \in Reqs :
        /\ r1 # r2 /\ seq[r1] < seq[r2]
        /\ req[r1].cred = Token(1) /\ req[r1].productId = Num(2)
        /\ req[r2].cred = Token(1) /\ req[r2].productId = Num(1)
        /\ status[r1] = 200 /\ status[r2] = 200
        /\ "cart.update" \in CallsOf(r2)
        /\ \E c \in cart :
              /\ c.userId = 1 /\ c.productId = 2
              /\ c.count = GivenCount(req[r1])
        /\ \E c \in cart : c.userId = 1 /\ c.productId = 1 /\ c.count > 2
        /\ [id |-> 2, userId |-> 2, productId |-> 2, count |-> 1] \in cart

\* ------------------------------------------------------------ C29
\* the request in slot r has been answered; its token verifies and names a
\* user id of no row of the user table
UnknownUser(r) ==
    /\ Answered(r) /\ req[r].route \in {"add", "delete"}
    /\ JwtVerify(req[r].cred).ok
    /\ UserFindUnique(JwtVerify(req[r].cred).userid) = NoRow
NoCartMutation(r) == writes[r] = 0 /\ CallsOf(r) \cap CartCalls = {}

\* C29 as claimed: every addToCart or deleteCart request whose token
\* verifies and names no stored user is answered 401 and makes no cart
\* write.
C29_UnknownUser401 ==
    \A r \in Reqs : UnknownUser(r) => status[r] = 401 /\ NoCartMutation(r)

\* C29: an addToCart or deleteCart request whose token verifies and names no
\* stored user makes no cart call and no cart write; it is answered 401
\* after the user lookup, except an addToCart request without productId,
\* which is answered 400 before any lookup.
C29_UnknownUserNoMutation ==
    \A r \in Reqs :
        UnknownUser(r) =>
            /\ NoCartMutation(r)
            /\ IF req[r].route = "add" /\ req[r].productId = Undef
               THEN status[r] = 400 /\ calls[r] = <<>>
               ELSE status[r] = 401 /\ calls[r] = <<"user.findUnique">>

\* an addToCart and a deleteCart request with the token of no user, both
\* answered 401, while the user lookup of each was made
C29_Witness ==
    \E r1, r2 \in Reqs :
        /\ UnknownUser(r1) /\ req[r1].route = "add"
        /\ req[r1].productId = Num(1) /\ status[r1] = 401
        /\ UnknownUser(r2) /\ req[r2].route = "delete" /\ status[r2] = 401
        /\ cart = {}

\* ------------------------------------------------------------ C30
\* a is an addToCart request whose lookup found the row of its pair and
\* whose update is pending; d is a deleteCart request of the same
\* authenticated user for the same product, sent when the row existed and
\* answered by now
C30_Pair(a, d) ==
    /\ a # d
    /\ req[a].route = "add" /\ req[d].route = "delete"
    /\ Authenticated(req[a]) /\ req[d].cred = req[a].cred
    /\ TargetProduct(req[d]) = TargetProduct(req[a])
    /\ pc[a] = "add_update" /\ cartItem[a] \in linesAtStart[d]
    /\ Answered(d)

====
